---- MODULE Spec2Model ----
(***************************************************************************)
(* Follow-up conversation bot (src/app.py): the follow_ups table, the      *)
(* webhook endpoint, the per-reply threads running handle_ai_reply and the *)
(* background_worker threads running send_initial_follow_up.               *)
(*                                                                         *)
(* Every SQL statement, every completion-service call and every gateway    *)
(* call is one step; steps of different threads interleave freely, as the  *)
(* code takes no lock and the connections run at READ COMMITTED.           *)
(***************************************************************************)
EXTENDS Integers, Sequences, FiniteSets, Bags, TLC

\* ------------------------------------------------------------------ bounds
MaxTime == 2        \* the clock runs 0..MaxTime (one unit = one minute)
MaxReplies == 2     \* reply threads the webhook may spawn
MaxResend == 1      \* greetings a contact has received beyond which the
                    \* store no longer fails under send_initial_follow_up

\* ------------------------------------------------------- program constants
Delay == 1          \* timedelta(minutes=1)

Contacts == {"c1", "c2"}
Missing == "missing"
PhoneOf(c) == IF c = "c1" THEN "+100" ELSE "+200"
Workers == {1, 2}        \* background_worker threads, one per loaded process
Handlers == {1, 2}       \* concurrent webhook requests
Threads == 1..MaxReplies

VARIABLES
    now,         \* datetime.now(), in minutes
    follow_ups,  \* the rows of table follow_ups, in insertion order
    handler,     \* each webhook request in progress
    response,    \* the last HTTP response the webhook returned
    thread,      \* each handle_ai_reply thread: position and local history
    worker,      \* each background_worker: position, due list, local history
    delivered,   \* per contact, the bag of texts the gateway accepted
    failed       \* history: contacts with a failed completion or send and
                 \* no inbound event since (kept by SpecRetry only)

vars == <<now, follow_ups, handler, response, thread, worker, delivered, failed>>

\* ------------------------------------------------------------ the database
NoRow == [contact_id |-> Missing]

NewRow(c, p, t) ==
    [contact_id |-> c, phone_number |-> p, status |-> "scheduled",
     scheduled_time |-> t, history |-> <<>>]

RowIdx(c) == {i \in DOMAIN follow_ups : follow_ups[i].contact_id = c}

\* SELECT ... WHERE contact_id = c; fetchone()
FetchOne(c) ==
    IF RowIdx(c) = {} THEN NoRow
    ELSE follow_ups[CHOOSE i \in RowIdx(c) : \A j \in RowIdx(c) : i <= j]

\* a table declared without the key accepts every INSERT
NoPrimaryKey(c) == TRUE

\* the PRIMARY KEY of follow_ups: an INSERT of an existing contact_id raises
PrimaryKeyAllows(c) == RowIdx(c) = {}

\* INSERT ... ON CONFLICT (contact_id) DO UPDATE: the trigger resets the row
InsertUpsert(c, p, t) ==
    IF RowIdx(c) = {}
    THEN Append(follow_ups, NewRow(c, p, t))
    ELSE [i \in DOMAIN follow_ups |->
            IF follow_ups[i].contact_id = c THEN NewRow(c, p, t) ELSE follow_ups[i]]

\* INSERT INTO follow_ups ...; commit: the table afterwards. The INSERT of
\* an existing contact_id raises and leaves the table as it was.
Insert(c, p, t) ==
    IF PrimaryKeyAllows(c)
    THEN Append(follow_ups, NewRow(c, p, t))
    ELSE follow_ups

\* an UPDATE that appends only the last turn of h to the stored history
UpdateHistoryLastTurn(c, h) ==
    [i \in DOMAIN follow_ups |->
        IF follow_ups[i].contact_id = c
        THEN [follow_ups[i] EXCEPT !.history = Append(@, h[Len(h)])]
        ELSE follow_ups[i]]

\* UPDATE follow_ups SET history = h WHERE contact_id = c
UpdateHistory(c, h) ==
    [i \in DOMAIN follow_ups |->
        IF follow_ups[i].contact_id = c
        THEN [follow_ups[i] EXCEPT !.history = h]
        ELSE follow_ups[i]]

\* an UPDATE that sets the status and leaves the stored history as it is
UpdateStatusOnly(c, h) ==
    [i \in DOMAIN follow_ups |->
        IF follow_ups[i].contact_id = c
        THEN [follow_ups[i] EXCEPT !.status = "ongoing"]
        ELSE follow_ups[i]]

\* UPDATE follow_ups SET status = 'ongoing', history = h WHERE contact_id = c
UpdateOngoing(c, h) ==
    [i \in DOMAIN follow_ups |->
        IF follow_ups[i].contact_id = c
        THEN [follow_ups[i] EXCEPT !.status = "ongoing", !.history = h]
        ELSE follow_ups[i]]

\* ------------------------------------------------------------------- turns
UserTurn(t) == [role |-> "user", content |-> <<"m", t>>]
ReplyTurn(t) == [role |-> "assistant", content |-> <<"r", t>>]
GreetingTurn(w) == [role |-> "assistant", content |-> <<"g", w>>]

\* ------------------------------------------------------------------ events
Bodies == {" start followup ", "START FOLLOWUP", "hello"}

\* message_data.get("content", "").strip().upper()
StripUpper(b) == IF b \in {" start followup ", "START FOLLOWUP"}
                 THEN "START FOLLOWUP"
                 ELSE "HELLO"

\* the identifiers an event resolves to: (contact_id, phone_number)
Idents(CS) == {<<c, PhoneOf(c)>> : c \in CS}
                \cup {<<Missing, "+100">>, <<"c1", Missing>>}

\* the payloads the webhook is sent about the contacts CS
Events(CS) ==
    {[event |-> "contact:update", id |-> i, label |-> l, fromMe |-> "none",
      content |-> "hello"] : i \in Idents(CS), l \in BOOLEAN}
    \cup
    {[event |-> "message:in:new", id |-> <<c, PhoneOf(c)>>, label |-> FALSE,
      fromMe |-> f, content |-> b] :
        c \in CS, f \in {"true", "false", "none"}, b \in Bodies}
    \cup
    {[event |-> "message:out:new", id |-> <<c, PhoneOf(c)>>, label |-> FALSE,
      fromMe |-> "true", content |-> "hello"] : c \in CS}

\* ------------------------------------------------------- the HTTP responses
Resp(code, msg) == [status |-> code, message |-> msg]
NoResponse == Resp(0, "")
RespMissing == Resp(400, "Missing key data")
RespExists == Resp(200, "Follow-up already exists")
RespScheduled == Resp(200, "Follow-up scheduled")
RespOk == Resp(200, "")
RespCrash == Resp(500, "")     \* an exception no handler catches

IdleHandler == [pc |-> "idle", contact_id |-> Missing]
Unborn == [pc |-> "unborn", contact_id |-> Missing, history |-> <<>>]
Asleep == [pc |-> "sleep", due |-> <<>>, history |-> <<>>]

Init ==
    /\ now = 0
    /\ follow_ups = <<>>
    /\ handler = [h \in Handlers |-> IdleHandler]
    /\ response = NoResponse
    /\ thread = [t \in Threads |-> Unborn]
    /\ worker = [w \in Workers |-> Asleep]
    /\ delivered = [c \in Contacts |-> EmptyBag]
    /\ failed = {}

\* -------------------------------------------------------- wassenger_webhook
\* the test that looks at contact_id alone
MalformedIdOnly(e) == e.id[1] = Missing

\* if not phone_number or not contact_id
Malformed(e) == e.id[1] = Missing \/ e.id[2] = Missing

\* event_type == "contact:update" and "Follow-up" in labels
IsLabelTrigger(e) == e.event = "contact:update" /\ e.label

\* fromMe is True and message_body.upper() == "START FOLLOWUP"
IsKeywordTrigger(e) ==
    /\ e.event = "message:in:new"
    /\ e.fromMe = "true"
    /\ StripUpper(e.content) = "START FOLLOWUP"

IsTrigger(e) == IsLabelTrigger(e) \/ IsKeywordTrigger(e)

\* elif message_data.get("fromMe") is False
IsPatientReply(e) ==
    /\ e.event = "message:in:new"
    /\ ~IsKeywordTrigger(e)
    /\ e.fromMe = "false"

\* the trigger without its existence check
NeverExists(c) == FALSE

\* cursor.execute("SELECT contact_id ..."); if cursor.fetchone(): ...
AlreadyExists(c) == FetchOne(c) # NoRow

ReceiveMalformed(h, e) ==
    /\ handler[h].pc = "idle"
    /\ Malformed(e)
    /\ response' = RespMissing
    /\ UNCHANGED <<now, follow_ups, handler, thread, worker, delivered>>

\* a trigger: the SELECT, and the early return when the row exists
ReceiveTrigger(h, e) ==
    /\ handler[h].pc = "idle"
    /\ ~Malformed(e)
    /\ IsTrigger(e)
    /\ IF AlreadyExists(e.id[1])
       THEN /\ response' = RespExists
            /\ UNCHANGED handler
       ELSE /\ handler' = [handler EXCEPT ![h] = [pc |-> "insert", contact_id |-> e.id[1]]]
            /\ UNCHANGED response
    /\ UNCHANGED <<now, follow_ups, thread, worker, delivered>>

\* the INSERT and commit of a trigger, scheduled_time = now + 1 minute
InsertFollowUp(h) ==
    /\ handler[h].pc = "insert"
    /\ LET c == handler[h].contact_id IN
       /\ follow_ups' = Insert(c, PhoneOf(c), now + Delay)
       /\ response' = IF PrimaryKeyAllows(c) THEN RespScheduled ELSE RespCrash
    /\ handler' = [handler EXCEPT ![h] = IdleHandler]
    /\ UNCHANGED <<now, thread, worker, delivered>>

\* threading.Thread(target=handle_ai_reply, ...).start()
ReceivePatientReply(h, e) ==
    /\ handler[h].pc = "idle"
    /\ ~Malformed(e)
    /\ IsPatientReply(e)
    /\ \E t \in Threads :
        /\ thread[t].pc = "unborn"
        /\ \A u \in Threads : u < t => thread[u].pc # "unborn"
        /\ thread' = [thread EXCEPT ![t] =
                        [pc |-> "start", contact_id |-> e.id[1], history |-> <<>>]]
    /\ response' = RespOk
    /\ UNCHANGED <<now, follow_ups, handler, worker, delivered>>

\* every other event falls through to the final return
ReceiveIgnored(h, e) ==
    /\ handler[h].pc = "idle"
    /\ ~Malformed(e)
    /\ ~IsTrigger(e)
    /\ ~IsPatientReply(e)
    /\ response' = RespOk
    /\ UNCHANGED <<now, follow_ups, handler, thread, worker, delivered>>

\* ---------------------------------------------------------- the collaborators
Outcomes == {"ok", "fail"}

\* send_message_to_wassenger: the gateway accepts the text or the error is
\* printed and swallowed; either way the call returns normally
Gateway(c, text, outcome) ==
    IF outcome = "ok"
    THEN [delivered EXCEPT ![c] = @ (+) SetToBag({text})]
    ELSE delivered

\* ----------------------------------------------------------- handle_ai_reply
\* the early return without the status test
NotOngoingAnyStatus(r) == r = NoRow

\* if not result or result[0] != 'ongoing': return
NotOngoing(r) == r = NoRow \/ r.status # "ongoing"

\* the user turn written to the table before the completion is requested
TableAfterUserAppendStored(c, h) ==
    [i \in DOMAIN follow_ups |->
        IF follow_ups[i].contact_id = c
        THEN [follow_ups[i] EXCEPT !.history = h]
        ELSE follow_ups[i]]

\* history.append(user turn) changes the local list only
TableAfterUserAppend(c, h) == follow_ups

\* SELECT status, history; the early return; the local append of the user turn
ReplySelect(t) ==
    /\ thread[t].pc = "start"
    /\ LET c == thread[t].contact_id
           r == FetchOne(c) IN
       IF NotOngoing(r)
       THEN /\ thread' = [thread EXCEPT ![t].pc = "skipped"]
            /\ UNCHANGED follow_ups
       ELSE /\ thread' = [thread EXCEPT ![t].pc = "gen",
                                        ![t].history = Append(r.history, UserTurn(t))]
            /\ follow_ups' = TableAfterUserAppend(c, Append(r.history, UserTurn(t)))
    /\ UNCHANGED <<now, handler, response, worker, delivered>>

\* OPENAI_CLIENT.chat.completions.create, then send_message_to_wassenger and
\* history.append(reply). A failed completion raises, the except clause
\* prints it and the thread ends; a failed send is swallowed by the sender.
ReplyGenerate(t, completion, send) ==
    /\ thread[t].pc = "gen"
    /\ IF completion = "ok"
       THEN /\ delivered' = Gateway(thread[t].contact_id, ReplyTurn(t).content, send)
            /\ thread' = [thread EXCEPT ![t].pc = "update",
                                        ![t].history = Append(@, ReplyTurn(t))]
       ELSE /\ send = "fail"
            /\ thread' = [thread EXCEPT ![t].pc = "failed", ![t].history = <<>>]
            /\ UNCHANGED delivered
    /\ UNCHANGED <<now, follow_ups, handler, response, worker>>

\* UPDATE follow_ups SET history = ...; commit
ReplyUpdate(t) ==
    /\ thread[t].pc = "update"
    /\ follow_ups' = UpdateHistory(thread[t].contact_id, thread[t].history)
    /\ thread' = [thread EXCEPT ![t].pc = "done", ![t].history = <<>>]
    /\ UNCHANGED <<now, handler, response, worker, delivered>>

\* --------------------------------- background_worker, send_initial_follow_up
\* WHERE status = 'scheduled' AND scheduled_time < now
IsDue(r, t) == r.status = "scheduled" /\ r.scheduled_time < t

RECURSIVE DueContacts(_, _)
DueContacts(rows, t) ==
    IF rows = <<>> THEN <<>>
    ELSE IF IsDue(Head(rows), t)
         THEN <<Head(rows).contact_id>> \o DueContacts(Tail(rows), t)
         ELSE DueContacts(Tail(rows), t)

\* the abort of the whole cycle at the first row that ends
AbortCycle(w) == [worker EXCEPT ![w] = Asleep]

\* the worker moves on to the next due row, or sleeps when none is left
NextRow(w) ==
    [worker EXCEPT ![w] =
        [pc |-> IF Len(worker[w].due) > 1 THEN "gen" ELSE "sleep",
         due |-> Tail(worker[w].due),
         history |-> <<>>]]

\* the wake cycle's SELECT of the due rows
Wake(w) ==
    /\ worker[w].pc = "sleep"
    /\ LET due == DueContacts(follow_ups, now) IN
       worker' = [worker EXCEPT ![w] =
                    [pc |-> IF due = <<>> THEN "sleep" ELSE "gen",
                     due |-> due, history |-> <<>>]]
    /\ UNCHANGED <<now, follow_ups, handler, response, thread, delivered>>

\* the completion call of send_initial_follow_up, then
\* send_message_to_wassenger; a failed completion raises and ends the row,
\* a failed send is swallowed by the sender
InitialGenerate(w, completion, send) ==
    /\ worker[w].pc = "gen"
    /\ IF completion = "ok"
       THEN /\ delivered' = Gateway(Head(worker[w].due), GreetingTurn(w).content, send)
            /\ worker' = [worker EXCEPT ![w].pc = "select"]
       ELSE /\ send = "fail"
            /\ worker' = NextRow(w)
            /\ UNCHANGED delivered
    /\ UNCHANGED <<now, follow_ups, handler, response, thread>>

\* SELECT history FROM follow_ups; if result: history.append(greeting)
InitialSelect(w) ==
    /\ worker[w].pc = "select"
    /\ LET r == FetchOne(Head(worker[w].due)) IN
       worker' = IF r = NoRow
                 THEN NextRow(w)
                 ELSE [worker EXCEPT ![w].pc = "update",
                                     ![w].history = Append(r.history, GreetingTurn(w))]
    /\ UNCHANGED <<now, follow_ups, handler, response, thread, delivered>>

\* UPDATE follow_ups SET status = 'ongoing', history = ...; commit
InitialUpdate(w) ==
    /\ worker[w].pc = "update"
    /\ follow_ups' = UpdateOngoing(Head(worker[w].due), worker[w].history)
    /\ worker' = NextRow(w)
    /\ UNCHANGED <<now, handler, response, thread, delivered>>

\* -------------------------------------------------------------------- time
Tick ==
    /\ now < MaxTime
    /\ now' = now + 1
    /\ UNCHANGED <<follow_ups, handler, response, thread, worker, delivered>>

\* the steps of the webhook and the reply threads about the contacts CS, and
\* of the background workers WS
NextOn(CS, WS) ==
    \/ Tick
    \/ \E h \in Handlers, e \in Events(CS) : ReceiveMalformed(h, e)
    \/ \E h \in Handlers, e \in Events(CS) : ReceiveTrigger(h, e)
    \/ \E h \in Handlers, e \in Events(CS) : ReceivePatientReply(h, e)
    \/ \E h \in Handlers, e \in Events(CS) : ReceiveIgnored(h, e)
    \/ \E h \in Handlers : InsertFollowUp(h)
    \/ \E t \in Threads : ReplySelect(t)
    \/ \E t \in Threads, o, g \in Outcomes : ReplyGenerate(t, o, g)
    \/ \E t \in Threads : ReplyUpdate(t)
    \/ \E w \in WS : Wake(w)
    \/ \E w \in WS, o, g \in Outcomes : InitialGenerate(w, o, g)
    \/ \E w \in WS : InitialSelect(w)
    \/ \E w \in WS : InitialUpdate(w)

\* one process: one background worker beside the webhook and its threads
Next == NextOn({"c1"}, {1}) /\ UNCHANGED failed

Spec == Init /\ [][Next]_vars

\* the module loaded by two processes (Gunicorn workers, or the reloader of
\* app.run(debug=True) and its child): each runs its own background worker
\* against the same table
NextOverlap == NextOn({"c1"}, Workers) /\ UNCHANGED failed

SpecOverlap == Init /\ [][NextOverlap]_vars

\* the same process as Spec, remembering per contact the delivery failures
\* (a completion call that raised, a send the gateway refused) that no
\* inbound event has followed
FailedAfterEvent(e) == failed \ {e.id[1]}

FailedAfterCall(c, completion, send) ==
    IF completion = "fail" \/ send = "fail" THEN failed \cup {c} ELSE failed

NextRetry ==
    \/ Tick /\ UNCHANGED failed
    \/ \E h \in Handlers, e \in Events({"c1"}) :
          ReceiveMalformed(h, e) /\ failed' = FailedAfterEvent(e)
    \/ \E h \in Handlers, e \in Events({"c1"}) :
          ReceiveTrigger(h, e) /\ failed' = FailedAfterEvent(e)
    \/ \E h \in Handlers, e \in Events({"c1"}) :
          ReceivePatientReply(h, e) /\ failed' = FailedAfterEvent(e)
    \/ \E h \in Handlers, e \in Events({"c1"}) :
          ReceiveIgnored(h, e) /\ failed' = FailedAfterEvent(e)
    \/ \E h \in Handlers : InsertFollowUp(h) /\ UNCHANGED failed
    \/ \E t \in Threads : ReplySelect(t) /\ UNCHANGED failed
    \/ \E t \in Threads, o, g \in Outcomes :
          /\ ReplyGenerate(t, o, g)
          /\ failed' = FailedAfterCall(thread[t].contact_id, o, g)
    \/ \E t \in Threads : ReplyUpdate(t) /\ UNCHANGED failed
    \/ Wake(1) /\ UNCHANGED failed
    \/ \E o, g \in Outcomes :
          /\ InitialGenerate(1, o, g)
          /\ failed' = FailedAfterCall(Head(worker[1].due), o, g)
    \/ InitialSelect(1) /\ UNCHANGED failed
    \/ InitialUpdate(1) /\ UNCHANGED failed

SpecRetry == Init /\ [][NextRetry]_vars

\* --------------------------------------------- the scheduler, store errors
\* get_db_connection, the SELECT or fetchone of send_initial_follow_up
\* raises: the except clause prints it and the row's call returns
InitialSelectFails(w) ==
    /\ worker[w].pc = "select"
    /\ BagCardinality(delivered[Head(worker[w].due)]) <= MaxResend
    /\ worker' = NextRow(w)
    /\ UNCHANGED <<now, follow_ups, handler, response, thread, delivered>>

\* the UPDATE or the commit raises: nothing is written, the call returns
InitialUpdateFails(w) ==
    /\ worker[w].pc = "update"
    /\ BagCardinality(delivered[Head(worker[w].due)]) <= MaxResend
    /\ worker' = NextRow(w)
    /\ UNCHANGED <<now, follow_ups, handler, response, thread, delivered>>

\* the wake cycle's own connection or SELECT raises: the error is printed
\* and the loop sleeps until its next cycle
WakeFails(w) ==
    /\ worker[w].pc = "sleep"
    /\ worker' = [worker EXCEPT ![w] = Asleep]
    /\ UNCHANGED <<now, follow_ups, handler, response, thread, delivered>>

\* the triggers for both contacts and the one background worker, with a
\* store that may fail; no other event arrives
NextSched ==
    \/ Tick /\ UNCHANGED failed
    \/ \E e \in Events(Contacts) : ReceiveTrigger(1, e) /\ UNCHANGED failed
    \/ InsertFollowUp(1) /\ UNCHANGED failed
    \/ Wake(1) /\ UNCHANGED failed
    \/ WakeFails(1) /\ UNCHANGED failed
    \/ \E o, g \in Outcomes : InitialGenerate(1, o, g) /\ UNCHANGED failed
    \/ InitialSelect(1) /\ UNCHANGED failed
    \/ InitialSelectFails(1) /\ UNCHANGED failed
    \/ InitialUpdate(1) /\ UNCHANGED failed
    \/ InitialUpdateFails(1) /\ UNCHANGED failed

SpecSched == Init /\ [][NextSched]_vars

\* ------------------------------------------- the scheduler, a call that hangs
\* the completion call and the requests.post made for contact c return (the
\* code passes no timeout to either, so a call may also never return)
CallReturns(c) ==
    /\ worker[1].pc = "gen"
    /\ Head(worker[1].due) = c
    /\ InitialGenerate(1, "ok", "ok")

\* triggers for both contacts and the one background worker; every call
\* that returns succeeds
NextStuck ==
    \/ Tick /\ UNCHANGED failed
    \/ \E e \in Events(Contacts) : ReceiveTrigger(1, e) /\ UNCHANGED failed
    \/ InsertFollowUp(1) /\ UNCHANGED failed
    \/ Wake(1) /\ UNCHANGED failed
    \/ \E c \in Contacts : CallReturns(c) /\ UNCHANGED failed
    \/ InitialSelect(1) /\ UNCHANGED failed
    \/ InitialUpdate(1) /\ UNCHANGED failed

\* the clock, the worker loop and the store are fair, and so are the calls
\* made for c2; a call made for c1 may hang for ever
SpecStuck ==
    /\ Init /\ [][NextStuck]_vars
    /\ WF_vars(Tick /\ UNCHANGED failed)
    /\ WF_vars(Wake(1) /\ UNCHANGED failed)
    /\ WF_vars(CallReturns("c2") /\ UNCHANGED failed)
    /\ WF_vars(InitialSelect(1) /\ UNCHANGED failed)
    /\ WF_vars(InitialUpdate(1) /\ UNCHANGED failed)

\* ---------------------------------------------------------------- helpers
Range(q) == {q[i] : i \in DOMAIN q}
IsPrefix(p, q) == Len(p) <= Len(q) /\ SubSeq(q, 1, Len(p)) = p
StoredHistory(c) == IF FetchOne(c) = NoRow THEN <<>> ELSE FetchOne(c).history
StoredStatus(c) == IF FetchOne(c) = NoRow THEN "none" ELSE FetchOne(c).status
AssistantTurns(q) == {i \in DOMAIN q : q[i].role = "assistant"}
Greetings(c) == {x \in BagToSet(delivered[c]) : x[1] = "g"}
GreetingsDelivered(c) ==
    BagCardinality([x \in Greetings(c) |-> delivered[c][x]])
Quiescent ==
    /\ \A t \in Threads : thread[t].pc \in {"unborn", "skipped", "failed", "done"}
    /\ \A w \in Workers : worker[w].pc = "sleep"
    /\ \A h \in Handlers : handler[h].pc = "idle"

\* ------------------------------------------------------------------ claims

\* C1: whatever triggers arrive and however their handlers interleave, the
\* table never holds two rows with the same contact_id, and once a trigger
\* has been answered a row exists.
IdempotentCreation ==
    /\ \A c \in Contacts : Cardinality(RowIdx(c)) <= 1
    /\ response \in {RespScheduled, RespExists, RespCrash}
        => \E c \in Contacts : Cardinality(RowIdx(c)) = 1

\* two triggers raced: the second INSERT was refused and one row exists
IdempotentCreationWitness ==
    /\ response = RespCrash
    /\ Cardinality(RowIdx("c1")) = 1

\* C2: for every contact the gateway accepts at most one initial message
\* over the whole life of the row, overlapping wake cycles included.
NoDoubleFiring ==
    \A c \in Contacts : GreetingsDelivered(c) <= 1

\* C3: once two replies for the same contact have both finished
\* successfully, the stored transcript holds both user turns and both
\* assistant replies.
NoLostTurns ==
    \A t, u \in Threads :
        (/\ t # u
         /\ thread[t].pc = "done"
         /\ thread[u].pc = "done"
         /\ thread[t].contact_id = thread[u].contact_id)
        => {UserTurn(t), ReplyTurn(t), UserTurn(u), ReplyTurn(u)}
              \subseteq Range(StoredHistory(thread[t].contact_id))

\* C4: in every quiescent state, for every contact the messages the gateway
\* accepted are exactly the assistant turns of the stored transcript, one
\* turn per message.
DispatchAndRecordAreOneUnit ==
    Quiescent =>
        \A c \in Contacts :
            LET q == StoredHistory(c) IN
            /\ BagCardinality(delivered[c]) = Cardinality(AssistantTurns(q))
            /\ \A x \in BagToSet(delivered[c]) :
                Cardinality({i \in AssistantTurns(q) : q[i].content = x}) = 1

\* C5: a failed gateway send leaves the conversation unchanged: no assistant
\* turn is stored whose text the gateway did not accept, and no row is
\* Ongoing unless the gateway accepted an initial message for it.
DispatchFailureLeavesUnchanged ==
    \A c \in Contacts :
        /\ \A i \in AssistantTurns(StoredHistory(c)) :
              BagIn(StoredHistory(c)[i].content, delivered[c])
        /\ StoredStatus(c) = "ongoing" => GreetingsDelivered(c) >= 1

\* C6: a contextual reply whose completion call failed has stored neither
\* its user turn nor a reply in any transcript, and has dispatched nothing.
CompletionFailureNoEffect ==
    \A t \in Threads :
        thread[t].pc = "failed" =>
            \A c \in Contacts :
                /\ UserTurn(t) \notin Range(StoredHistory(c))
                /\ ReplyTurn(t) \notin Range(StoredHistory(c))
                /\ ~BagIn(ReplyTurn(t).content, delivered[c])

\* a reply thread failed at the completion call of an Ongoing conversation
CompletionFailureWitness ==
    \E t \in Threads :
        /\ thread[t].pc = "failed"
        /\ StoredStatus(thread[t].contact_id) = "ongoing"
        /\ StoredHistory(thread[t].contact_id) # <<>>

StatusMonotonic ==
    [][\A c \in Contacts :
        /\ Cardinality(RowIdx(c)') >= Cardinality(RowIdx(c))
        /\ StoredStatus(c) = "ongoing" => StoredStatus(c)' = "ongoing"
        /\ StoredStatus(c) = "scheduled" => StoredStatus(c)' \in {"scheduled", "ongoing"}]_vars

\* a trigger was answered after the row had become Ongoing
StatusMonotonicWitness ==
    /\ StoredStatus("c1") = "ongoing"
    /\ response = RespExists

\* C9: in every step, for every contact, the stored transcript before the
\* step is a prefix of the stored transcript after it.
TranscriptAppendOnly ==
    [][\A c \in Contacts :
        IsPrefix(StoredHistory(c), StoredHistory(c)')]_vars

\* C10: a trigger whose existence check finds a row changes nothing in the
\* table, is answered 200 "Follow-up already exists", and leaves the
\* handler, the workers and the gateway log as they were.
DuplicateTriggerNoOp ==
    [][\A h \in Handlers :
        (/\ handler[h].pc = "idle"
         /\ \/ /\ handler'[h].pc = "insert"
               /\ FetchOne(handler'[h].contact_id) # NoRow
            \/ /\ response' # response
               /\ response'.message = "Follow-up already exists")
        => /\ follow_ups' = follow_ups
           /\ response' = RespExists
           /\ response'.status = 200
           /\ handler' = handler
           /\ worker' = worker
           /\ delivered' = delivered]_vars

\* a duplicate trigger was answered while the row was Scheduled
DuplicateTriggerWitness ==
    /\ response = RespExists
    /\ StoredStatus("c1") = "scheduled"

\* C11: an event whose contact_id or phone_number does not resolve can only
\* be answered 400 "Missing key data", with the table, the handlers, the
\* reply threads, the workers and the gateway log as they were; it is never
\* taken as a trigger or a patient reply, and the answer of an ignored event
\* is never that error.
MalformedRejected ==
    \A h \in Handlers, e \in Events(Contacts) :
        /\ (e.id[1] = Missing \/ e.id[2] = Missing) =>
              /\ handler[h].pc = "idle" => ENABLED ReceiveMalformed(h, e)
              /\ ~ENABLED ReceiveTrigger(h, e)
              /\ ~ENABLED ReceivePatientReply(h, e)
              /\ ~ENABLED ReceiveIgnored(h, e)
              /\ ~ENABLED (/\ ReceiveMalformed(h, e)
                           /\ ~(/\ response' = RespMissing
                                /\ response'.status = 400
                                /\ UNCHANGED <<follow_ups, handler, thread,
                                               worker, delivered>>))
        /\ ~ENABLED (ReceiveIgnored(h, e) /\ response'.status # 200)

\* a malformed event was answered while a row was waiting
MalformedRejectedWitness ==
    /\ response = RespMissing
    /\ StoredStatus("c1") = "scheduled"

\* C12: once a completion call or a send has failed for a contact, no
\* background worker requests a completion for that contact until a new
\* inbound event for the contact has arrived.
NoAutomaticRetry ==
    [][\A w \in Workers :
        (worker[w].pc = "gen" /\ worker'[w] # worker[w])
            => Head(worker[w].due) \notin failed]_vars
\* C13: whatever the outcome of one due row (completion, dispatch or store
\* error included), the worker goes on to the next row of the same cycle's
\* due list and passes it to send_initial_follow_up; after the last row it
\* sleeps, and a sleeping worker can always start its next wake cycle.
FailureIsolation ==
    [][\A w \in Workers :
        /\ (worker[w].pc # "sleep" /\ worker'[w] # worker[w]) =>
              \/ /\ worker'[w].due = worker[w].due
                 /\ worker'[w].pc \in {"select", "update"}
              \/ /\ worker'[w].due = Tail(worker[w].due)
                 /\ worker'[w].pc = IF Tail(worker[w].due) = <<>> THEN "sleep" ELSE "gen"
        /\ (worker[w].pc = "sleep" /\ worker'[w] # worker[w]) =>
              /\ worker'[w].due = DueContacts(follow_ups, now)
              /\ worker'[w].pc = "gen"
        /\ worker[w].pc = "sleep" => ENABLED Wake(w)]_vars

\* c1 and c2 were due in the same cycle, c1's processing failed (its row is
\* still Scheduled) and c2 is now in send_initial_follow_up
FailureIsolationWitness ==
    /\ Len(follow_ups) = 2
    /\ follow_ups[1].contact_id = "c1"
    /\ follow_ups[2].contact_id = "c2"
    /\ follow_ups[1].scheduled_time = follow_ups[2].scheduled_time
    /\ follow_ups[1].status = "scheduled"
    /\ worker[1].pc = "gen"
    /\ worker[1].due = <<"c2">>

\* C14: for two patient replies of one contact, accepted in the order t
\* before u, the completion request of u is never issued while t is still
\* in flight, and once both are stored the user turn and the reply of t
\* stand before the user turn of u in the transcript.
PerContactOrdering ==
    [][\A t, u \in Threads :
        (t < u /\ thread[u].pc # "unborn" /\ thread[t].contact_id = thread[u].contact_id)
        => /\ (thread[u].pc = "gen" /\ thread'[u].pc # "gen")
                 => thread[t].pc \notin {"start", "gen", "update"}
           /\ (thread'[t].pc = "done" /\ thread'[u].pc = "done")
                 => LET q == StoredHistory(thread[t].contact_id)' IN
                    \E i, j, k \in DOMAIN q :
                        /\ i < j /\ j < k
                        /\ q[i] = UserTurn(t)
                        /\ q[j] = ReplyTurn(t)
                        /\ q[k] = UserTurn(u)]_vars

\* C15: a call for c1 that never returns does not hold up c2: a Scheduled
\* row of c2 that is due gets its initial message and becomes Ongoing, and
\* the worker does not wait for ever inside the call made for c1.
ContactsDoNotBlock ==
    /\ (StoredStatus("c2") = "scheduled" /\ IsDue(FetchOne("c2"), now))
          ~> (StoredStatus("c2") = "ongoing" /\ GreetingsDelivered("c2") >= 1)
    /\ (worker[1].pc = "gen" /\ Head(worker[1].due) = "c1")
          ~> ~(worker[1].pc = "gen" /\ Head(worker[1].due) = "c1")

\* C17: the rows a wake cycle starting now passes to the initial-message
\* path are exactly the Scheduled rows whose scheduled_time is at or before
\* now (a row whose scheduled_time equals now included), and never an
\* Ongoing row or a row scheduled later.
DueSelection ==
    \A w \in Workers :
        worker[w].pc = "sleep" =>
            Range(DueContacts(follow_ups, now)) =
                {c \in Contacts : /\ StoredStatus(c) = "scheduled"
                                  /\ FetchOne(c).scheduled_time <= now}

\* ------------------------------------- one contact, no failure, no overlap
\* one request, one reply thread or one wake cycle at a time, each started
\* when the one before has finished, and every call succeeds
NextSeq ==
    \/ Tick /\ UNCHANGED failed
    \/ \E e \in Events({"c1"}) : Quiescent /\ ReceiveTrigger(1, e) /\ UNCHANGED failed
    \/ InsertFollowUp(1) /\ UNCHANGED failed
    \/ \E e \in Events({"c1"}) : Quiescent /\ ReceivePatientReply(1, e) /\ UNCHANGED failed
    \/ \E t \in Threads : ReplySelect(t) /\ UNCHANGED failed
    \/ \E t \in Threads : ReplyGenerate(t, "ok", "ok") /\ UNCHANGED failed
    \/ \E t \in Threads : ReplyUpdate(t) /\ UNCHANGED failed
    \/ Quiescent /\ Wake(1) /\ UNCHANGED failed
    \/ InitialGenerate(1, "ok", "ok") /\ UNCHANGED failed
    \/ InitialSelect(1) /\ UNCHANGED failed
    \/ InitialUpdate(1) /\ UNCHANGED failed

SpecSeq == Init /\ [][NextSeq]_vars

\* the turns of the reply threads 1..n that have finished, in their order
RECURSIVE DoneTurns(_)
DoneTurns(n) ==
    IF n = 0 THEN <<>>
    ELSE DoneTurns(n - 1) \o (IF thread[n].pc = "done"
                              THEN <<UserTurn(n), ReplyTurn(n)>>
                              ELSE <<>>)

\* C16: in a run without failure or overlap, the trigger's INSERT stores the
\* row (Scheduled, no turn, scheduled_time = now + delay); a wake cycle that
\* starts at or after scheduled_time selects the row; the cycle leaves it
\* Ongoing with the greeting as its only turn and one message dispatched;
\* each patient reply then adds its user turn and its reply, and dispatches
\* that reply once.
EndToEndLifecycle ==
    /\ handler[1].pc = "insert" =>
          ENABLED (/\ InsertFollowUp(1)
                   /\ follow_ups' = <<NewRow("c1", "+100", now + Delay)>>)
    /\ (/\ Quiescent
        /\ StoredStatus("c1") = "scheduled"
        /\ FetchOne("c1").scheduled_time <= now)
          => ENABLED (Wake(1) /\ worker'[1].pc = "gen" /\ worker'[1].due = <<"c1">>)
    /\ (Quiescent /\ StoredStatus("c1") = "scheduled")
          => /\ StoredHistory("c1") = <<>>
             /\ delivered["c1"] = EmptyBag
    /\ (Quiescent /\ StoredStatus("c1") = "ongoing")
          => LET q == StoredHistory("c1") IN
             /\ q = <<GreetingTurn(1)>> \o DoneTurns(MaxReplies)
             /\ delivered["c1"] = SetToBag({q[i].content : i \in AssistantTurns(q)})

\* C18: in every stored transcript each reply of handle_ai_reply stands
\* directly after the user turn it answers; the history a reply thread
\* sends to the completion service is the transcript it read at its SELECT
\* with that user turn appended, and the reply is appended to exactly that.
UserTurnPrecedesReply ==
    [][/\ \A c \in Contacts :
            LET q == StoredHistory(c)' IN
            \A i \in DOMAIN q :
                q[i].content[1] = "r" =>
                    /\ i > 1
                    /\ q[i] = ReplyTurn(q[i].content[2])
                    /\ q[i - 1] = UserTurn(q[i].content[2])
       /\ \A t \in Threads :
            /\ (thread[t].pc = "start" /\ thread'[t].pc = "gen")
                  => thread'[t].history =
                        Append(StoredHistory(thread[t].contact_id), UserTurn(t))
            /\ (thread[t].pc = "gen" /\ thread'[t].pc = "update")
                  => thread'[t].history = Append(thread[t].history, ReplyTurn(t))
            /\ (thread[t].pc = "update" /\ thread'[t].pc = "done")
                  => StoredHistory(thread[t].contact_id)' = thread[t].history]_vars

\* two replies are stored, each directly after its user turn
UserTurnPrecedesReplyWitness ==
    LET q == StoredHistory("c1") IN
    /\ Len(q) = 5
    /\ q[2] = UserTurn(1) /\ q[3] = ReplyTurn(1)
    /\ q[4] = UserTurn(2) /\ q[5] = ReplyTurn(2)

\* C19: in every reachable state a Scheduled row has an empty transcript,
\* an Ongoing row has a transcript that starts with an assistant turn, and
\* a transcript that holds a user turn starts with the greeting.
StatusTranscriptAgree ==
    \A i \in DOMAIN follow_ups :
        LET r == follow_ups[i] IN
        /\ r.status \in {"scheduled", "ongoing"}
        /\ r.status = "scheduled" => r.history = <<>>
        /\ r.status = "ongoing" =>
              /\ r.history # <<>>
              /\ r.history[1].role = "assistant"
        /\ (\E k \in DOMAIN r.history : r.history[k].role = "user")
              => /\ r.status = "ongoing"
                 /\ r.history[1].content[1] = "g"

\* an Ongoing row that holds a patient's turn
StatusTranscriptAgreeWitness ==
    /\ StoredStatus("c1") = "ongoing"
    /\ \E k \in DOMAIN StoredHistory("c1") : StoredHistory("c1")[k].role = "user"

\* ------------------------------------------- the scheduler under fairness
\* triggers for both contacts and the one background worker; a completion
\* or gateway call may fail
NextLive ==
    \/ Tick /\ UNCHANGED failed
    \/ \E e \in Events(Contacts) : ReceiveTrigger(1, e) /\ UNCHANGED failed
    \/ InsertFollowUp(1) /\ UNCHANGED failed
    \/ Wake(1) /\ UNCHANGED failed
    \/ \E o, g \in Outcomes : InitialGenerate(1, o, g) /\ UNCHANGED failed
    \/ InitialSelect(1) /\ UNCHANGED failed
    \/ InitialUpdate(1) /\ UNCHANGED failed

\* the clock and the worker loop keep running, every call returns, and for
\* each contact the calls that are made again and again succeed in the end
SpecLive ==
    /\ Init /\ [][NextLive]_vars
    /\ WF_vars(Tick /\ UNCHANGED failed)
    /\ WF_vars(InsertFollowUp(1) /\ UNCHANGED failed)
    /\ WF_vars(Wake(1) /\ UNCHANGED failed)
    /\ WF_vars((\E o, g \in Outcomes : InitialGenerate(1, o, g)) /\ UNCHANGED failed)
    /\ \A c \in Contacts : SF_vars(CallReturns(c) /\ UNCHANGED failed)
    /\ WF_vars(InitialSelect(1) /\ UNCHANGED failed)
    /\ WF_vars(InitialUpdate(1) /\ UNCHANGED failed)

\* C20: every row created Scheduled (early enough for the clock of the
\* model to pass its scheduled_time) eventually is Ongoing with its initial
\* message accepted by the gateway.
SchedulingProgress ==
    \A c \in Contacts :
        (StoredStatus(c) = "scheduled" /\ FetchOne(c).scheduled_time < MaxTime)
            ~> (StoredStatus(c) = "ongoing" /\ GreetingsDelivered(c) >= 1)

====
